---- MODULE Spec2Model ----
(***************************************************************************)
(* A model of the two containers of namespace mystl: the doubly-linked     *)
(* list of list.h and the growable array of vector.h.                      *)
(*                                                                         *)
(* The list lives in a heap of nodes (nodes) that all list objects share,  *)
(* the array in a heap of buffers (bufs) that all array objects share, so  *)
(* that "two containers share no storage" is a statement about the state.  *)
(* Every member function is a pure operator from the machine state before  *)
(* the call to the state after it, translated statement by statement; an   *)
(* action applies one member function to one object and records the call   *)
(* in the variable last.                                                   *)
(***************************************************************************)
EXTENDS Integers, Sequences, FiniteSets, TLC

\* ------------------------------------------------------------------------
\* Bounds of the model
\* ------------------------------------------------------------------------
MaxNodes == 3          \* node addresses the allocator can hand out
MaxBufs == 3           \* buffer addresses the allocator can hand out
MaxLen == 3            \* VecNext: a call never makes the array longer than this
MaxReserve == 12       \* VecNext: the largest capacity reserve is asked for
MaxIndex == 13         \* VecNext: the largest index at() is asked for
PairLen == 2           \* PairNext: a call never makes an array longer than this
MaxIdlePops == 1       \* PushPopNext: pop_back calls made on an empty array
FullLen == 10           \* FullNext: a call never makes the array longer than this
MaxGrow == 11          \* GrowNext, PushPopNext: a call never makes the array longer

\* ------------------------------------------------------------------------
\* Values
\* ------------------------------------------------------------------------
NULL == 0              \* the null pointer: list_iterator(node* v = NULL)
DefaultT == 0          \* T(), the value-initialised element
Val == {1, 2}          \* the element values a caller passes
Indet == -1            \* a slot of new T[c] that was never assigned
MinCap == 10           \* std::max(size_t(10), 2*n)
Node == 1..MaxNodes
Ptr == Node \cup {NULL}
ListId == {1, 2}
Buf == 1..MaxBufs
VecId == {1, 2}

VARIABLES
  nodes,    \* the node heap: Node -> [live, t, prev, next]
  lst,      \* the list objects: ListId -> [made, head, tail, sz]
  bufs,     \* the buffer heap: Buf -> [live, a], a the sequence of slots
  vec,      \* the array objects: VecId -> [made, t, cap, sz]
  balance,  \* push_back calls minus pop_back calls (counted in PushPopNext)
  idle,     \* pop_back calls made on an empty array (counted in PushPopNext)
  last      \* the call that produced this state, and how it ended

vars == <<nodes, lst, bufs, vec, balance, idle, last>>

\* ------------------------------------------------------------------------
\* The node heap (struct node, operator new / delete)
\* ------------------------------------------------------------------------
FreedNode == [live |-> FALSE, t |-> DefaultT, prev |-> NULL, next |-> NULL]

LiveNodes(h) == {n \in Node : h[n].live}

\* the address operator new returns: the lowest free one
NewAddr(h) == CHOOSE n \in Node \ LiveNodes(h) : \A m \in Node \ LiveNodes(h) : n <= m

\* new node(val, p, n)
NewNode(h, val, p, n) ==
  [h EXCEPT ![NewAddr(h)] = [live |-> TRUE, t |-> val, prev |-> p, next |-> n]]

\* delete n
DeleteNode(h, n) == [h EXCEPT ![n] = FreedNode]

\* A machine state of one list object: the heap h and the object's fields l.
Mach(h, l) == [h |-> h, l |-> l]

empty(l) == l.sz = 0

\* ------------------------------------------------------------------------
\* list::push_front, pop_front, push_back, pop_back
\* ------------------------------------------------------------------------
list_push_front(m, val) ==
  LET midNode == NewAddr(m.h) IN
  IF empty(m.l)
  THEN Mach(NewNode(m.h, val, NULL, NULL),
            [m.l EXCEPT !.head = midNode, !.tail = midNode, !.sz = @ + 1])
  ELSE LET h1 == NewNode(m.h, val, NULL, m.l.head)
           h2 == [h1 EXCEPT ![m.l.head].prev = midNode]
       IN Mach(h2, [m.l EXCEPT !.head = midNode, !.sz = @ + 1])

list_pop_front(m) ==
  IF empty(m.l) THEN m
  ELSE IF m.l.sz = 1
  THEN Mach(DeleteNode(m.h, m.l.head),
            [m.l EXCEPT !.tail = NULL, !.head = NULL, !.sz = @ - 1])
  ELSE LET head1 == m.h[m.l.head].next
           h1 == DeleteNode(m.h, m.h[head1].prev)
           h2 == [h1 EXCEPT ![head1].prev = NULL]
       IN Mach(h2, [m.l EXCEPT !.head = head1, !.sz = @ - 1])

list_push_back(m, val) ==
  LET midNode == NewAddr(m.h) IN
  IF empty(m.l)
  THEN Mach(NewNode(m.h, val, NULL, NULL),
            [m.l EXCEPT !.head = midNode, !.tail = midNode, !.sz = @ + 1])
  ELSE LET h1 == NewNode(m.h, val, m.l.tail, NULL)
           h2 == [h1 EXCEPT ![m.l.tail].next = midNode]
       IN Mach(h2, [m.l EXCEPT !.tail = midNode, !.sz = @ + 1])

\* a pop_back that takes the element at the wrong end
list_pop_back_at_front(m) == list_pop_front(m)

list_pop_back(m) ==
  IF empty(m.l) THEN m
  ELSE IF m.l.sz = 1
  THEN Mach(DeleteNode(m.h, m.l.tail),
            [m.l EXCEPT !.tail = NULL, !.head = NULL, !.sz = @ - 1])
  ELSE LET tail1 == m.h[m.l.tail].prev
           h1 == DeleteNode(m.h, m.h[tail1].next)
           h2 == [h1 EXCEPT ![tail1].next = NULL]
       IN Mach(h2, [m.l EXCEPT !.tail = tail1, !.sz = @ - 1])

\* ------------------------------------------------------------------------
\* How a call ends.  ub names the undefined behaviour the call ran into:
\* "null_deref" (an access through the null pointer), "use_after_free" (an
\* access to a deleted node) or "wild_deref" (an access through a pointer
\* that was itself read from a deleted node); end is "return", "crash" (the access
\* faulted) or "loop" (the call was still iterating after ClearFuel rounds).
\* ------------------------------------------------------------------------
Outcome(m, ub, end) == [m |-> m, ub |-> ub, end |-> end]

Ok(m) == Outcome(m, "none", "return")

\* an address that is neither null nor a node: what a poisoned field holds
Wild == MaxNodes + 1

\* what a load from a deleted node can yield: the allocator may have left
\* the old contents, zeroed them, poisoned them or reused them
Garbage == Ptr \cup {Wild}

\* ------------------------------------------------------------------------
\* list::insert
\* ------------------------------------------------------------------------
\* an insert that puts the value at the end whatever the position
list_insert_at_back(m, i, val) == list_push_back(m, val)

list_insert(m, i, val) ==
  IF i = m.l.head THEN list_push_front(m, val)
  ELSE IF i = NULL THEN list_push_back(m, val)
  ELSE LET midNode == NewAddr(m.h)
           h1 == NewNode(m.h, val, m.h[i].prev, i)
           h2 == [h1 EXCEPT ![h1[i].prev].next = midNode]
           h3 == [h2 EXCEPT ![i].prev = midNode]
       IN Mach(h3, [m.l EXCEPT !.sz = @ + 1])

\* ------------------------------------------------------------------------
\* list::erase.  In the last branch i.n->next is null when i is the last
\* node of a longer list: the store i.n->next->prev = ... then goes through
\* the null pointer.  It either faults, or lands in unmapped-but-writable
\* low memory and the remaining statements run.
\* ------------------------------------------------------------------------
list_erase(m, i) ==
  IF i = m.l.head THEN {Ok(list_pop_front(m))}
  ELSE IF i = NULL THEN {Ok(list_pop_back(m))}
  ELSE IF m.h[i].next = NULL
  THEN LET h2 == [m.h EXCEPT ![m.h[i].prev].next = m.h[i].next]
           h3 == DeleteNode(h2, i)
       IN {Outcome(m, "null_deref", "crash"),
           Outcome(Mach(h3, [m.l EXCEPT !.sz = @ - 1]), "null_deref", "return")}
  ELSE LET h1 == [m.h EXCEPT ![m.h[i].next].prev = m.h[i].prev]
           h2 == [h1 EXCEPT ![h1[i].prev].next = h1[i].next]
           h3 == DeleteNode(h2, i)
       IN {Ok(Mach(h3, [m.l EXCEPT !.sz = @ - 1]))}

\* ------------------------------------------------------------------------
\* list_iterator::operator++ and operator--, begin() and end().
\* An iterator is its node pointer n.  A result is [n, ub, end].
\* ------------------------------------------------------------------------
begin(l) == l.head

end == NULL

Deref(h, n, field) ==
  IF n = NULL
  THEN {[n |-> n, ub |-> "null_deref", end |-> "crash"]}
       \cup {[n |-> g, ub |-> "null_deref", end |-> "return"] : g \in Garbage}
  ELSE IF n = Wild
  THEN {[n |-> n, ub |-> "wild_deref", end |-> "crash"]}
  ELSE IF ~h[n].live
  THEN {[n |-> g, ub |-> "use_after_free", end |-> "return"] : g \in Garbage}
  ELSE {[n |-> h[n][field], ub |-> "none", end |-> "return"]}

iterator_inc(h, n) == Deref(h, n, "next")

iterator_dec(h, n) == Deref(h, n, "prev")

\* ------------------------------------------------------------------------
\* list::clear:  for (iterator it = begin(); it != end(); ++it) pop_front();
\* The first pop_front deletes the node it points at, so ++it loads the
\* next field of a deleted node.  A loop state is [m, it, ub]; the loop is
\* run on the set of loop states the loads seen so far allow.
\* ------------------------------------------------------------------------
ClearFuel == MaxNodes + 1

FirstUb(a, b) == IF a # "none" THEN a ELSE b

\* one round: the body pop_front(), then ++it
clear_round(x) ==
  LET m1 == list_pop_front(x.m) IN
  {[m |-> m1, it |-> r.n, ub |-> FirstUb(x.ub, r.ub), end |-> r.end] :
     r \in iterator_inc(m1.h, x.it)}

RECURSIVE clear_loop(_, _)
clear_loop(F, fuel) ==
  LET exits == {Outcome(x.m, x.ub, "return") : x \in {y \in F : y.it = end}}
      run == {y \in F : y.it # end}
      stepped == UNION {clear_round(x) : x \in run}
      faulted == {Outcome(y.m, y.ub, "crash") : y \in {z \in stepped : z.end = "crash"}}
      onward == {[m |-> y.m, it |-> y.it, ub |-> y.ub] :
                   y \in {z \in stepped : z.end = "return"}}
  IN IF run = {} THEN exits
     ELSE IF fuel = 0 THEN exits \cup {Outcome(x.m, x.ub, "loop") : x \in run}
     ELSE exits \cup faulted \cup clear_loop(onward, fuel - 1)

list_clear(m) == clear_loop({[m |-> m, it |-> begin(m.l), ub |-> "none"]}, ClearFuel)

\* ------------------------------------------------------------------------
\* list::resize, list::list(n, val), list::list(const list&), list::~list
\* ------------------------------------------------------------------------
RECURSIVE grow_to(_, _, _)
grow_to(m, n, val) == IF m.l.sz < n THEN grow_to(list_push_back(m, val), n, val) ELSE m

RECURSIVE shrink_to(_, _)
shrink_to(m, n) == IF m.l.sz > n THEN shrink_to(list_pop_back(m), n) ELSE m

list_resize(m, n, val) == shrink_to(grow_to(m, n, val), n)

list_ctor(h, n, val) ==
  grow_to(Mach(h, [made |-> TRUE, head |-> NULL, tail |-> NULL, sz |-> 0]), n, val)

\* the loop of the copy constructor and of operator=: it walks the source
\* from node it while this list grows
RECURSIVE append_from(_, _)
append_from(m, it) ==
  IF it # end THEN append_from(list_push_back(m, m.h[it].t), m.h[it].next) ELSE m

list_copy_ctor(h, v) ==
  append_from(Mach(h, [made |-> TRUE, head |-> NULL, tail |-> NULL, sz |-> 0]), begin(v))

RECURSIVE list_dtor(_)
list_dtor(m) == IF m.l.sz > 0 THEN list_dtor(list_pop_front(m)) ELSE m

\* list::operator=(const list& v): clear(), then push_back of every value
\* of v from v.cbegin() on.  v is the fields of the source, same says
\* whether &v == this: the source then is this list as clear() left it, and
\* if that is not empty the loop appends to the chain it walks and never
\* reaches the end.
assign_source(o, v, same) == IF same THEN o.m.l ELSE v

list_assign(m, v, same) ==
  {IF o.end # "return" THEN o
   ELSE IF same /\ ~empty(o.m.l) THEN Outcome(o.m, o.ub, "loop")
   ELSE Outcome(append_from(o.m, begin(assign_source(o, v, same))), o.ub, "return") :
     o \in list_clear(m)}

\* ------------------------------------------------------------------------
\* Reading a list: the nodes reached from head by next, from tail by prev
\* ------------------------------------------------------------------------
RECURSIVE Forward(_, _, _)
Forward(h, n, fuel) ==
  IF n = NULL \/ fuel = 0 THEN <<>>
  ELSE <<n>> \o (IF h[n].live THEN Forward(h, h[n].next, fuel - 1) ELSE <<>>)

RECURSIVE Backward(_, _, _)
Backward(h, n, fuel) ==
  IF n = NULL \/ fuel = 0 THEN <<>>
  ELSE <<n>> \o (IF h[n].live THEN Backward(h, h[n].prev, fuel - 1) ELSE <<>>)

Chain(h, l) == Forward(h, l.head, MaxNodes + 1)

BackChain(h, l) == Backward(h, l.tail, MaxNodes + 1)

Values(h, l) == [j \in 1..Len(Chain(h, l)) |-> h[Chain(h, l)[j]].t]

Reverse(s) == [j \in 1..Len(s) |-> s[Len(s) + 1 - j]]

Range(s) == {s[j] : j \in 1..Len(s)}

\* the 0-based index of position i in the list: Len for end()
IndexOf(s, i) == IF i = end THEN Len(s) ELSE CHOOSE j \in 0..(Len(s) - 1) : s[j + 1] = i

\* ========================================================================
\* vector.h
\* ========================================================================
\* The buffer heap (new T[c], delete[]).  Slot i of the source, counted
\* from 0, is a[i + 1].
FreedBuf == [live |-> FALSE, a |-> <<>>]

LiveBufs(b) == {x \in Buf : b[x].live}

NewBufAddr(b) == CHOOSE x \in Buf \ LiveBufs(b) : \A y \in Buf \ LiveBufs(b) : x <= y

\* new T[c]
NewBuf(b, c) == [b EXCEPT ![NewBufAddr(b)] = [live |-> TRUE, a |-> [j \in 1..c |-> Indet]]]

\* delete[] t
DeleteBuf(b, t) == [b EXCEPT ![t] = FreedBuf]

\* t[i]  and  t[i] = x
Get(b, t, i) == b[t].a[i + 1]

Put(b, t, i, x) == [b EXCEPT ![t].a[i + 1] = x]

\* A machine state of one array object: the heap b and the object's fields v.
VMach(b, v) == [b |-> b, v |-> v]

Max(x, y) == IF x >= y THEN x ELSE y

\* for (i = from; i < to; i++) t[i] = val
RECURSIVE fill(_, _, _, _, _)
fill(b, t, from, to, val) ==
  IF from < to THEN fill(Put(b, t, from, val), t, from + 1, to, val) ELSE b

\* for (i = from; i < to; i++) dst[i] = src[i]
RECURSIVE copy_slots(_, _, _, _, _)
copy_slots(b, dst, src, from, to) ==
  IF from < to
  THEN copy_slots(Put(b, dst, from, Get(b, src, from)), dst, src, from + 1, to)
  ELSE b

\* vector(size_t n, const T& val)
vector_ctor(b, n, val) ==
  LET cap == Max(MinCap, 2 * n)
      t == NewBufAddr(b)
  IN VMach(fill(NewBuf(b, cap), t, 0, n, val),
           [made |-> TRUE, t |-> t, cap |-> cap, sz |-> n])

\* a copy constructor that copies the pointer, not the buffer
vector_copy_ctor_shallow(b, v) ==
  VMach(b, [made |-> TRUE, t |-> v.t, cap |-> v.cap, sz |-> v.sz])

\* vector(const vector& v)
vector_copy_ctor(b, v) ==
  LET t == NewBufAddr(b)
  IN VMach(copy_slots(NewBuf(b, v.cap), t, v.t, 0, v.cap),
           [made |-> TRUE, t |-> t, cap |-> v.cap, sz |-> v.sz])

\* ~vector()
vector_dtor(m) == DeleteBuf(m.b, m.v.t)

\* an operator= that allocates the new buffer without delete[] of the old
vector_assign_leaking(m, v, same) ==
  IF same THEN m
  ELSE LET t == NewBufAddr(m.b)
           b2 == copy_slots(NewBuf(m.b, v.cap), t, v.t, 0, v.sz)
       IN VMach(b2, [m.v EXCEPT !.t = t, !.sz = v.sz, !.cap = v.cap])

\* operator=(const vector& v); same says whether &v == this
vector_assign(m, v, same) ==
  IF same THEN m
  ELSE LET b1 == DeleteBuf(m.b, m.v.t)
           t == NewBufAddr(b1)
           b2 == copy_slots(NewBuf(b1, v.cap), t, v.t, 0, v.sz)
       IN VMach(b2, [m.v EXCEPT !.t = t, !.sz = v.sz, !.cap = v.cap])

\* a reserve whose copy loop stops one element early
vector_reserve_drops_last(m, c) ==
  IF c > m.v.cap
  THEN LET tmp == NewBufAddr(m.b)
           b1 == copy_slots(NewBuf(m.b, c), tmp, m.v.t, 0, m.v.sz - 1)
       IN VMach(DeleteBuf(b1, m.v.t), [m.v EXCEPT !.t = tmp, !.cap = c])
  ELSE m

\* a reserve that reallocates to any other capacity, a smaller one too
vector_reserve_any(m, c) ==
  IF c # m.v.cap
  THEN LET tmp == NewBufAddr(m.b)
           b1 == copy_slots(NewBuf(m.b, c), tmp, m.v.t, 0, m.v.sz)
       IN VMach(DeleteBuf(b1, m.v.t), [m.v EXCEPT !.t = tmp, !.cap = c])
  ELSE m

vector_reserve(m, c) ==
  IF c > m.v.cap
  THEN LET tmp == NewBufAddr(m.b)
           b1 == copy_slots(NewBuf(m.b, c), tmp, m.v.t, 0, m.v.sz)
       IN VMach(DeleteBuf(b1, m.v.t), [m.v EXCEPT !.t = tmp, !.cap = c])
  ELSE m

\* a push_back that never grows the buffer
vector_push_back_no_growth(m, val) ==
  VMach(Put(m.b, m.v.t, m.v.sz, val), [m.v EXCEPT !.sz = @ + 1])

\* a push_back that grows by one slot
vector_push_back_by_one(m, val) ==
  LET m1 == IF m.v.sz = m.v.cap THEN vector_reserve(m, m.v.cap + 1) ELSE m
  IN VMach(Put(m1.b, m1.v.t, m1.v.sz, val), [m1.v EXCEPT !.sz = @ + 1])

vector_push_back(m, val) ==
  LET m1 == IF m.v.sz = m.v.cap THEN vector_reserve(m, m.v.cap * 2) ELSE m
  IN VMach(Put(m1.b, m1.v.t, m1.v.sz, val), [m1.v EXCEPT !.sz = @ + 1])

vector_push_back_incremental(m, val) ==
  LET m1 == IF m.v.sz = m.v.cap THEN vector_reserve(m, m.v.cap + 1) ELSE m
  IN VMach(Put(m1.b, m1.v.t, m1.v.sz, val), [m1.v EXCEPT !.sz = @ + 1])

vector_empty(v) == v.sz = 0

vector_pop_back(m) ==
  IF ~vector_empty(m.v)
  THEN VMach(Put(m.b, m.v.t, m.v.sz - 1, DefaultT), [m.v EXCEPT !.sz = @ - 1])
  ELSE m

\* insert: an iterator is a slot address of the buffer, written as its
\* offset from t.  The loop state is the machine state, tmp and indx.
RECURSIVE insert_loop(_, _, _, _)
insert_loop(m, i, tmp, indx) ==
  IF i # indx
  THEN LET tmp1 == tmp - 1
           m1 == vector_push_back(m, Get(m.b, m.v.t, tmp1))
           m2 == VMach(m1.b, [m1.v EXCEPT !.sz = @ - 1])
       IN insert_loop(m2, i, tmp1, indx - 1)
  ELSE [m |-> m, tmp |-> tmp]

\* an insert that grows a full array instead of leaving it alone
vector_insert_growing(m, i, val) ==
  LET m0 == IF m.v.sz = m.v.cap THEN vector_reserve(m, m.v.cap + 1) ELSE m
      x == insert_loop(m0, i, m0.v.sz, m0.v.sz)
  IN VMach(Put(x.m.b, x.m.v.t, x.tmp, val), [x.m.v EXCEPT !.sz = @ + 1])

vector_insert(m, i, val) ==
  IF m.v.sz < m.v.cap
  THEN LET x == insert_loop(m, i, m.v.sz, m.v.sz)
       IN VMach(Put(x.m.b, x.m.v.t, x.tmp, val), [x.m.v EXCEPT !.sz = @ + 1])
  ELSE m

\* for (j = tmp; j < cap - 1; ++j) t[j] = t[j + 1]
RECURSIVE shift_left(_, _, _, _)
shift_left(b, t, j, cap) ==
  IF j < cap - 1 THEN shift_left(Put(b, t, j, Get(b, t, j + 1)), t, j + 1, cap) ELSE b

\* while (i != indx) {++tmp; ++indx;}
RECURSIVE erase_seek(_, _, _)
erase_seek(i, indx, tmp) == IF i # indx THEN erase_seek(i, indx + 1, tmp + 1) ELSE tmp

\* an erase whose shift starts one slot too far to the right
vector_erase_from_next(m, i) ==
  IF ~vector_empty(m.v)
  THEN LET tmp == erase_seek(i, 0, 0)
       IN VMach(shift_left(m.b, m.v.t, tmp + 1, m.v.cap), [m.v EXCEPT !.sz = @ - 1])
  ELSE m

vector_erase(m, i) ==
  IF ~vector_empty(m.v)
  THEN LET tmp == erase_seek(i, 0, 0)
       IN VMach(shift_left(m.b, m.v.t, tmp, m.v.cap), [m.v EXCEPT !.sz = @ - 1])
  ELSE m

\* for (int i = sz; i > 0; --i) pop_back();
RECURSIVE clear_from(_, _)
clear_from(m, i) == IF i > 0 THEN clear_from(vector_pop_back(m), i - 1) ELSE m

vector_clear(m) == clear_from(m, m.v.sz)

RECURSIVE vshrink_to(_, _)
vshrink_to(m, n) == IF n < m.v.sz THEN vshrink_to(vector_pop_back(m), n) ELSE m

RECURSIVE vgrow_to(_, _, _)
vgrow_to(m, n, val) == IF n > m.v.sz THEN vgrow_to(vector_push_back(m, val), n, val) ELSE m

\* a resize that only ever grows
vector_resize_grow_only(m, n, val) == vgrow_to(m, n, val)

vector_resize(m, n, val) == vgrow_to(vshrink_to(m, n), n, val)

\* an at whose check lets i = size() through
vector_at_off_by_one(m, i) ==
  IF i < 0 \/ i > m.v.sz
  THEN [thrown |-> TRUE, value |-> DefaultT]
  ELSE [thrown |-> FALSE, value |-> Get(m.b, m.v.t, i)]

\* at(i): [thrown, value]
vector_at(m, i) ==
  IF i < 0 \/ i >= m.v.sz
  THEN [thrown |-> TRUE, value |-> DefaultT]
  ELSE [thrown |-> FALSE, value |-> Get(m.b, m.v.t, i)]

\* the elements an array shows: slots 0 .. sz-1
Elems(b, v) == [j \in 1..v.sz |-> b[v.t].a[j]]

\* ------------------------------------------------------------------------
\* The program: calls on the list objects and on the array objects
\* ------------------------------------------------------------------------
NoList == [made |-> FALSE, head |-> NULL, tail |-> NULL, sz |-> 0]

\* the record of a call: the container kind, the member function, the object, the 0-based index
\* k of its position argument (or its size argument), its value argument,
\* the pointer of its position argument, what it returned, how it ended
Call(on, op, c, k, v, pos, ret, ub, e) ==
  [on |-> on, op |-> op, c |-> c, k |-> k, v |-> v, pos |-> pos, ret |-> ret, ub |-> ub, end |-> e]

\* nothing is defined after a crash, an endless loop or a null-pointer access
Running == last.end = "return" /\ last.ub # "null_deref"

\* a run uses the lists or the arrays: the two containers do not depend on
\* each other
ListRun == Running /\ last.on # "vector"

VecRun == Running /\ last.on # "list"

ListFrame == UNCHANGED <<bufs, vec, balance, idle>>

VecFrame == UNCHANGED <<nodes, lst>>

M(c) == Mach(nodes, lst[c])

Install(c, m) == nodes' = m.h /\ lst' = [lst EXCEPT ![c] = m.l]

HasRoom(k) == Cardinality(LiveNodes(nodes)) + k <= MaxNodes

Positions(c) == Range(Chain(nodes, lst[c])) \cup {end}

Where(c, i) == IndexOf(Chain(nodes, lst[c]), i)

NoVec == [made |-> FALSE, t |-> NULL, cap |-> 0, sz |-> 0]

NoNodes == [n \in Node |-> FreedNode]

NoBufs == [x \in Buf |-> FreedBuf]

\* list 1 and array 1 are default-constructed; list 2 and array 2 are not yet
Init ==
  /\ nodes = NoNodes
  /\ lst = [c \in ListId |-> IF c = 1 THEN list_ctor(NoNodes, 0, DefaultT).l ELSE NoList]
  /\ bufs = vector_ctor(NoBufs, 0, DefaultT).b
  /\ vec = [x \in VecId |-> IF x = 1 THEN vector_ctor(NoBufs, 0, DefaultT).v ELSE NoVec]
  /\ balance = 0
  /\ idle = 0
  /\ last = Call("none", "start", 1, 0, DefaultT, NULL, NULL, "none", "return")

PushFront(c, val) ==
  /\ ListRun /\ lst[c].made /\ HasRoom(1)
  /\ Install(c, list_push_front(M(c), val))
  /\ last' = Call("list", "push_front", c, 0, val, NULL, NULL, "none", "return")
  /\ ListFrame

PushBack(c, val) ==
  /\ ListRun /\ lst[c].made /\ HasRoom(1)
  /\ Install(c, list_push_back(M(c), val))
  /\ last' = Call("list", "push_back", c, 0, val, NULL, NULL, "none", "return")
  /\ ListFrame

PopFront(c) ==
  /\ ListRun /\ lst[c].made
  /\ Install(c, list_pop_front(M(c)))
  /\ last' = Call("list", "pop_front", c, 0, DefaultT, NULL, NULL, "none", "return")
  /\ ListFrame

PopBack(c) ==
  /\ ListRun /\ lst[c].made
  /\ Install(c, list_pop_back(M(c)))
  /\ last' = Call("list", "pop_back", c, 0, DefaultT, NULL, NULL, "none", "return")
  /\ ListFrame

Insert(c, i, val) ==
  /\ ListRun /\ lst[c].made /\ HasRoom(1)
  /\ i \in Positions(c)
  /\ Install(c, list_insert(M(c), i, val))
  /\ last' = Call("list", "insert", c, Where(c, i), val, i, i, "none", "return")
  /\ ListFrame

Erase(c, i) ==
  /\ ListRun /\ lst[c].made
  /\ i \in Positions(c)
  /\ \E o \in list_erase(M(c), i) :
       /\ Install(c, o.m)
       /\ last' = Call("list", "erase", c, Where(c, i), DefaultT, i, i, o.ub, o.end)
  /\ ListFrame

Clear(c) ==
  /\ ListRun /\ lst[c].made
  /\ \E o \in list_clear(M(c)) :
       /\ Install(c, o.m)
       /\ last' = Call("list", "clear", c, 0, DefaultT, NULL, NULL, o.ub, o.end)
  /\ ListFrame

Resize(c, n, val) ==
  /\ ListRun /\ lst[c].made /\ HasRoom(n - lst[c].sz)
  /\ Install(c, list_resize(M(c), n, val))
  /\ last' = Call("list", "resize", c, n, val, NULL, NULL, "none", "return")
  /\ ListFrame

Construct(c, n, val) ==
  /\ ListRun /\ ~lst[c].made /\ HasRoom(n)
  /\ Install(c, list_ctor(nodes, n, val))
  /\ last' = Call("list", "ctor", c, n, val, NULL, NULL, "none", "return")
  /\ ListFrame

CopyConstruct(c, v) ==
  /\ ListRun /\ ~lst[c].made /\ lst[v].made /\ HasRoom(lst[v].sz)
  /\ Install(c, list_copy_ctor(nodes, lst[v]))
  /\ last' = Call("list", "copy", c, v, DefaultT, NULL, NULL, "none", "return")
  /\ ListFrame

Destroy(c) ==
  /\ ListRun /\ lst[c].made
  /\ nodes' = list_dtor(M(c)).h
  /\ lst' = [lst EXCEPT ![c] = NoList]
  /\ last' = Call("list", "~list", c, 0, DefaultT, NULL, NULL, "none", "return")
  /\ ListFrame

\* c = v.  The nodes the copy loop needs must be free after clear().
Assign(c, v) ==
  /\ ListRun /\ lst[c].made /\ lst[v].made
  /\ \A o \in list_clear(M(c)) :
       Cardinality(LiveNodes(o.m.h)) + assign_source(o, lst[v], c = v).sz <= MaxNodes
          \/ (c = v /\ ~empty(o.m.l))
  /\ \E o \in list_assign(M(c), lst[v], c = v) :
       /\ Install(c, o.m)
       /\ last' = Call("list", "assign", c, v, DefaultT, NULL, NULL, o.ub, o.end)
  /\ ListFrame

\* --i for an iterator i of list c other than begin(): end() included
Decrement(c, i) ==
  /\ ListRun /\ lst[c].made
  /\ i \in Positions(c) /\ i # begin(lst[c])
  /\ \E r \in iterator_dec(nodes, i) :
       last' = Call("list", "--", c, Where(c, i), DefaultT, i, r.n, r.ub, r.end)
  /\ UNCHANGED <<nodes, lst>>
  /\ ListFrame

\* ++i for an iterator i of list c other than end()
Increment(c, i) ==
  /\ ListRun /\ lst[c].made
  /\ i \in Positions(c) /\ i # end
  /\ \E r \in iterator_inc(nodes, i) :
       last' = Call("list", "++", c, Where(c, i), DefaultT, i, r.n, r.ub, r.end)
  /\ UNCHANGED <<nodes, lst>>
  /\ ListFrame

\* every call but construction from a size and a value
ListCalls ==
  \E c \in ListId :
    \/ \E val \in Val : PushFront(c, val)
    \/ \E val \in Val : PushBack(c, val)
    \/ PopFront(c)
    \/ PopBack(c)
    \/ \E i \in Ptr, val \in Val : Insert(c, i, val)
    \/ \E i \in Ptr : Erase(c, i)
    \/ Clear(c)
    \/ \E n \in 0..MaxNodes, val \in Val : Resize(c, n, val)
    \/ \E v \in ListId \ {c} : CopyConstruct(c, v)
    \/ Destroy(c)
    \/ \E i \in Ptr : Decrement(c, i)
    \/ \E i \in Ptr : Increment(c, i)

ListNext ==
  \/ ListCalls
  \/ \E c \in ListId, n \in 0..MaxNodes, val \in Val : Construct(c, n, val)

ListSpec == Init /\ [][ListNext]_vars

\* every list call, with assignment of one list to another or to itself
AssignNext ==
  \/ ListNext
  \/ \E c \in ListId, v \in ListId : Assign(c, v)

AssignSpec == Init /\ [][AssignNext]_vars

\* ------------------------------------------------------------------------
\* Calls on the array objects.  A position argument is begin() + k.  The
\* specification that takes the step says what it records of the call.
\* ------------------------------------------------------------------------
V(x) == VMach(bufs, vec[x])

VInstall(x, m) == bufs' = m.b /\ vec' = [vec EXCEPT ![x] = m.v]

\* a call that may reallocate needs a free buffer address
BufRoom == Cardinality(LiveBufs(bufs)) < MaxBufs

VPushBack(x, val) ==
  /\ VecRun /\ vec[x].made /\ BufRoom
  /\ VInstall(x, vector_push_back(V(x), val))
  /\ VecFrame

VPushBackIncremental(x, val) ==
  /\ VecRun /\ vec[x].made /\ BufRoom
  /\ VInstall(x, vector_push_back_incremental(V(x), val))
  /\ VecFrame

VPopBack(x) ==
  /\ VecRun /\ vec[x].made
  /\ VInstall(x, vector_pop_back(V(x)))
  /\ VecFrame

VInsert(x, k, val) ==
  /\ VecRun /\ vec[x].made
  /\ k \in 0..vec[x].sz
  /\ VInstall(x, vector_insert(V(x), k, val))
  /\ VecFrame

VErase(x, k) ==
  /\ VecRun /\ vec[x].made
  /\ k \in 0..(vec[x].sz - 1)
  /\ VInstall(x, vector_erase(V(x), k))
  /\ VecFrame

VClear(x) ==
  /\ VecRun /\ vec[x].made
  /\ VInstall(x, vector_clear(V(x)))
  /\ VecFrame

VResize(x, n, val) ==
  /\ VecRun /\ vec[x].made /\ BufRoom
  /\ VInstall(x, vector_resize(V(x), n, val))
  /\ VecFrame

VReserve(x, c) ==
  /\ VecRun /\ vec[x].made /\ BufRoom
  /\ VInstall(x, vector_reserve(V(x), c))
  /\ VecFrame

\* at(i) changes nothing
VAt(x, i) ==
  /\ VecRun /\ vec[x].made
  /\ UNCHANGED <<bufs, vec>>
  /\ VecFrame

\* v[i] = val through operator[], for i < size()
VWrite(x, i, val) ==
  /\ VecRun /\ vec[x].made
  /\ i \in 0..(vec[x].sz - 1)
  /\ bufs' = Put(bufs, vec[x].t, i, val)
  /\ UNCHANGED vec
  /\ VecFrame

VConstruct(x, n, val) ==
  /\ VecRun /\ ~vec[x].made /\ BufRoom
  /\ VInstall(x, vector_ctor(bufs, n, val))
  /\ VecFrame

VCopyConstruct(x, y) ==
  /\ VecRun /\ ~vec[x].made /\ vec[y].made /\ BufRoom
  /\ VInstall(x, vector_copy_ctor(bufs, vec[y]))
  /\ VecFrame

VAssign(x, y) ==
  /\ VecRun /\ vec[x].made /\ vec[y].made
  /\ VInstall(x, vector_assign(V(x), vec[y], x = y))
  /\ VecFrame

VDestroy(x) ==
  /\ VecRun /\ vec[x].made
  /\ bufs' = vector_dtor(V(x))
  /\ vec' = [vec EXCEPT ![x] = NoVec]
  /\ VecFrame

\* what a step records: the whole call, or the member function and object
Rec(op, x, k, v, ret, ub) ==
  /\ last' = Call("vector", op, x, k, v, k, ret, ub, "return")
  /\ UNCHANGED <<balance, idle>>

Note(op, x) ==
  /\ last' = Call("vector", op, x, 0, DefaultT, NULL, NULL, "none", "return")
  /\ UNCHANGED <<balance, idle>>

\* the whole call, counted: db is added to balance and di to idle
Count(op, x, v, db, di) ==
  /\ last' = Call("vector", op, x, 0, v, 0, NULL, "none", "return")
  /\ balance' = balance + db
  /\ idle' = idle + di

AtResult(x, i) == vector_at(V(x), i)

\* One array, kept short: every member function on it.
VecNext ==
  \/ \E val \in Val :
       vec[1].sz < MaxLen /\ VPushBack(1, val) /\ Rec("push_back", 1, 0, val, NULL, "none")
  \/ \E val \in Val :
       /\ vec[1].sz < MaxLen /\ VPushBackIncremental(1, val)
       /\ Rec("push_back_incremental", 1, 0, val, NULL, "none")
  \/ VPopBack(1) /\ Rec("pop_back", 1, 0, DefaultT, NULL, "none")
  \/ \E k \in 0..MaxLen, val \in Val :
       vec[1].sz < MaxLen /\ VInsert(1, k, val) /\ Rec("insert", 1, k, val, k, "none")
  \/ \E k \in 0..MaxLen : VErase(1, k) /\ Rec("erase", 1, k, DefaultT, k, "none")
  \/ VClear(1) /\ Rec("clear", 1, 0, DefaultT, NULL, "none")
  \/ \E n \in 0..MaxLen, val \in Val : VResize(1, n, val) /\ Rec("resize", 1, n, val, NULL, "none")
  \/ \E c \in (MinCap - 1)..MaxReserve :
       VReserve(1, c) /\ Rec("reserve", 1, c, DefaultT, NULL, "none")
  \/ \E i \in 0..MaxIndex :
       /\ VAt(1, i)
       /\ Rec("at", 1, i, DefaultT, AtResult(1, i).value,
              IF AtResult(1, i).thrown THEN "out_of_range" ELSE "none")
  \/ \E i \in 0..MaxLen, val \in Val : VWrite(1, i, val) /\ Rec("write", 1, i, val, NULL, "none")

VecSpec == Init /\ [][VecNext]_vars

\* Two arrays, kept shorter: every member function that changes an array,
\* on either object, with copy construction, assignment and destruction.
PairCaps == {MinCap, MinCap + 1}

PairCalls ==
  \E x \in VecId :
    \/ \E val \in Val : vec[x].sz < PairLen /\ VPushBack(x, val) /\ Note("push_back", x)
    \/ \E val \in Val :
         /\ vec[x].sz < PairLen /\ VPushBackIncremental(x, val)
         /\ Note("push_back_incremental", x)
    \/ VPopBack(x) /\ Note("pop_back", x)
    \/ \E k \in 0..PairLen, val \in Val :
         vec[x].sz < PairLen /\ VInsert(x, k, val) /\ Note("insert", x)
    \/ \E k \in 0..PairLen : VErase(x, k) /\ Note("erase", x)
    \/ VClear(x) /\ Note("clear", x)
    \/ \E n \in 0..PairLen, val \in Val : VResize(x, n, val) /\ Note("resize", x)
    \/ \E c \in PairCaps : VReserve(x, c) /\ Note("reserve", x)
    \/ \E i \in 0..PairLen, val \in Val : VWrite(x, i, val) /\ Note("write", x)
    \/ \E y \in VecId \ {x} : VCopyConstruct(x, y) /\ Note("copy", x)
    \/ \E y \in VecId : VAssign(x, y) /\ Rec("assign", x, y, DefaultT, NULL, "none")
    \/ VDestroy(x) /\ Note("~vector", x)

PairNext ==
  \/ PairCalls
  \/ \E x \in VecId, n \in 0..PairLen, val \in Val : VConstruct(x, n, val) /\ Note("ctor", x)

PairSpec == Init /\ [][PairNext]_vars

\* One array that starts empty and is filled past its capacity.
GrowNext ==
  \/ \E val \in Val :
       vec[1].sz < MaxGrow /\ VPushBack(1, val) /\ Rec("push_back", 1, 0, val, NULL, "none")
  \/ \E val \in Val :
       /\ vec[1].sz < MaxGrow /\ VPushBackIncremental(1, val)
       /\ Rec("push_back_incremental", 1, 0, val, NULL, "none")
  \/ VPopBack(1) /\ Rec("pop_back", 1, 0, DefaultT, NULL, "none")

GrowSpec == Init /\ [][GrowNext]_vars

\* push_back and pop_back alone, each call counted.
PushPopNext ==
  \/ \E val \in Val :
       vec[1].sz < MaxGrow /\ VPushBack(1, val) /\ Count("push_back", 1, val, 1, 0)
  \/ /\ vec[1].sz > 0 \/ idle < MaxIdlePops
     /\ VPopBack(1)
     /\ Count("pop_back", 1, DefaultT, -1, IF vec[1].sz = 0 THEN 1 ELSE 0)

PushPopSpec == Init /\ [][PushPopNext]_vars

\* One array that is filled up to its capacity, with insert at every
\* position of it.
FullNext ==
  \/ \E val \in Val : vec[1].sz < FullLen /\ VPushBack(1, val) /\ Note("push_back", 1)
  \/ \E val \in Val :
       vec[1].sz < FullLen /\ VPushBackIncremental(1, val) /\ Note("push_back_incremental", 1)
  \/ VPopBack(1) /\ Note("pop_back", 1)
  \/ \E k \in 0..(FullLen + 1), val \in Val :
       /\ vec[1].sz < FullLen \/ vec[1].sz = vec[1].cap
       /\ VInsert(1, k, val) /\ Rec("insert", 1, k, val, k, "none")

FullSpec == Init /\ [][FullNext]_vars

\* Resizing: every call on the lists; on array 1, a few elements pushed
\* and popped and resize to every size up to one past the first growth.
ResizeNext ==
  \/ ListNext
  \/ \E val \in Val :
       vec[1].sz < MaxLen /\ VPushBack(1, val) /\ Rec("push_back", 1, 0, val, NULL, "none")
  \/ VPopBack(1) /\ Rec("pop_back", 1, 0, DefaultT, NULL, "none")
  \/ \E n \in 0..MaxGrow, val \in Val :
       VResize(1, n, val) /\ Rec("resize", 1, n, val, NULL, "none")

ResizeSpec == Init /\ [][ResizeNext]_vars

\* Sizes up to and past the capacity: array 1 is constructed with any size,
\* filled, grown and emptied by every member function that changes it.
\* Array 2 is a copy of it; while the copy exists the two are assigned to
\* each other and array 1 is destroyed and constructed again.
CapVal == {1}

Alone == ~vec[2].made

CapNext ==
  \/ \E val \in CapVal :
       /\ Alone /\ vec[1].sz < MaxGrow /\ VPushBack(1, val)
       /\ Rec("push_back", 1, 0, val, NULL, "none")
  \/ \E val \in CapVal :
       /\ Alone /\ vec[1].sz < MaxGrow /\ VPushBackIncremental(1, val)
       /\ Rec("push_back_incremental", 1, 0, val, NULL, "none")
  \/ Alone /\ VPopBack(1) /\ Rec("pop_back", 1, 0, DefaultT, NULL, "none")
  \/ \E k \in 0..MaxGrow, val \in CapVal :
       /\ Alone
       /\ vec[1].sz < MaxGrow \/ vec[1].sz = vec[1].cap
       /\ VInsert(1, k, val) /\ Rec("insert", 1, k, val, k, "none")
  \/ \E k \in 0..MaxGrow : Alone /\ VErase(1, k) /\ Rec("erase", 1, k, DefaultT, k, "none")
  \/ Alone /\ VClear(1) /\ Rec("clear", 1, 0, DefaultT, NULL, "none")
  \/ \E n \in 0..MaxGrow, val \in CapVal :
       Alone /\ VResize(1, n, val) /\ Rec("resize", 1, n, val, NULL, "none")
  \/ \E c \in PairCaps : Alone /\ VReserve(1, c) /\ Rec("reserve", 1, c, DefaultT, NULL, "none")
  \/ \E n \in 0..MaxGrow, val \in CapVal :
       VConstruct(1, n, val) /\ Rec("ctor", 1, n, val, NULL, "none")
  \/ VCopyConstruct(2, 1) /\ Rec("copy", 2, 1, DefaultT, NULL, "none")
  \/ \E x \in VecId, y \in VecId : VAssign(x, y) /\ Rec("assign", x, y, DefaultT, NULL, "none")
  \/ \E x \in VecId : VDestroy(x) /\ Rec("~vector", x, 0, DefaultT, NULL, "none")

CapSpec == Init /\ [][CapNext]_vars

\* Copies: object 1 is default-constructed and every other object is made
\* by copy construction.
CopyNext == ListCalls \/ PairCalls

CopySpec == Init /\ [][CopyNext]_vars

\* ========================================================================
\* Properties
\* ========================================================================
RemoveAt(s, j) == SubSeq(s, 1, j - 1) \o SubSeq(s, j + 1, Len(s))

InsertAt(s, j, x) == SubSeq(s, 1, j - 1) \o <<x>> \o SubSeq(s, j, Len(s))

Front(s) == SubSeq(s, 1, Len(s) - 1)

\* the structure of one list object
WellFormed(h, l) ==
  /\ l.sz = 0 <=> (l.head = NULL /\ l.tail = NULL)
  /\ l.sz # 0 =>
       /\ l.head # NULL /\ l.tail # NULL
       /\ h[l.head].live /\ h[l.tail].live
       /\ h[l.head].prev = NULL /\ h[l.tail].next = NULL
       /\ Len(Chain(h, l)) = l.sz
       /\ Chain(h, l)[l.sz] = l.tail
       /\ BackChain(h, l) = Reverse(Chain(h, l))

\* C1: in every state reached by list calls from the empty list, each list
\* object has size 0 exactly when head and tail are both null, and otherwise
\* head has no prev, tail has no next, following next from head visits
\* exactly size nodes and ends at tail, and following prev from tail visits
\* the same nodes in reverse order.
C1_ListStructure == \A c \in ListId : lst[c].made => WellFormed(nodes, lst[c])

\* the same, for the states no access through the null pointer has led to
ListStructureBarringNullAccess ==
  last.ub # "null_deref" => C1_ListStructure

\* C2: erase(pos), for pos at an element of a list of size n >= 1 (the
\* first, an interior one or the last), leaves size n - 1 and the sequence
\* with only that element removed.
C2_EraseRemovesElement ==
  [][(last'.on = "list" /\ last'.op = "erase" /\ last'.pos # end) =>
       LET c == last'.c IN
       /\ lst'[c].sz = lst[c].sz - 1
       /\ Values(nodes', lst'[c]) = RemoveAt(Values(nodes, lst[c]), last'.k + 1)]_vars

\* the same, for every element but the last one of a list of two or more
EraseButLast ==
  [][(last'.on = "list" /\ last'.op = "erase" /\ last'.pos # end
        /\ (last'.k + 1 < lst[last'.c].sz \/ lst[last'.c].sz = 1)) =>
       LET c == last'.c IN
       /\ last'.ub = "none" /\ last'.end = "return"
       /\ lst'[c].sz = lst[c].sz - 1
       /\ Values(nodes', lst'[c]) = RemoveAt(Values(nodes, lst[c]), last'.k + 1)]_vars

\* C9: --end() on a non-empty list returns an iterator at the tail node.
C9_DecrementFromEnd ==
  (last.on = "list" /\ last.op = "--" /\ last.pos = end) =>
    /\ last.end = "return"
    /\ last.ret = lst[last.c].tail

\* decrement from an element other than the first goes to its predecessor
DecrementFromElement ==
  (last.on = "list" /\ last.op = "--" /\ last.pos # end) =>
    /\ last.end = "return" /\ last.ub = "none"
    /\ last.ret = Chain(nodes, lst[last.c])[last.k]

\* C10: push_front prepends, push_back appends, pop_front removes the
\* first and pop_back the last element (nothing on an empty list), and
\* size() is the length of the resulting sequence.
C10_DoubleEnded ==
  [][last'.on = "list" =>
       LET c == last'.c
           before == Values(nodes, lst[c])
           after == Values(nodes', lst'[c])
           model == CASE last'.op = "push_front" -> <<last'.v>> \o before
                      [] last'.op = "push_back" -> Append(before, last'.v)
                      [] last'.op = "pop_front" ->
                           IF before = <<>> THEN before ELSE Tail(before)
                      [] last'.op = "pop_back" ->
                           IF before = <<>> THEN before ELSE Front(before)
                      [] OTHER -> after
       IN last'.op \in {"push_front", "push_back", "pop_front", "pop_back"} =>
            after = model /\ lst'[c].sz = Len(model)]_vars

\* a pop_back has just taken the last of three elements
C10_Witness ==
  /\ last.on = "list" /\ last.op = "pop_back"
  /\ lst[last.c].sz = 2
  /\ Values(nodes, lst[last.c])[1] # Values(nodes, lst[last.c])[2]

\* C6: a call on one container leaves the size and the elements of every
\* other container as they were, and two containers share no node and no
\* buffer; every container but the first is a copy.
C6_CopyIndependence ==
  [][/\ \A c \in ListId :
          (last'.on = "list" /\ last'.c # c /\ lst[c].made) =>
            /\ lst'[c] = lst[c]
            /\ Values(nodes', lst'[c]) = Values(nodes, lst[c])
     /\ (lst'[1].made /\ lst'[2].made) =>
          Range(Chain(nodes', lst'[1])) \cap Range(Chain(nodes', lst'[2])) = {}
     /\ \A x \in VecId :
          (last'.on = "vector" /\ last'.c # x /\ vec[x].made) =>
            /\ vec'[x] = vec[x]
            /\ Elems(bufs', vec'[x]) = Elems(bufs, vec[x])
     /\ (vec'[1].made /\ vec'[2].made) => vec'[1].t # vec'[2].t]_vars

\* push_back on the copy of a non-empty array
C6_Witness ==
  /\ last.on = "vector" /\ last.op = "push_back" /\ last.c = 2
  /\ vec[1].made /\ vec[1].sz = 1 /\ vec[2].sz = 2
  /\ Elems(bufs, vec[2])[1] = Elems(bufs, vec[1])[1]

\* C3: insert(begin() + k, v) with size < capacity leaves size + 1
\* elements: the old ones before k, v, the old ones from k on in order.
C3_InsertShiftsTail ==
  [][(last'.on = "vector" /\ last'.op = "insert" /\ vec[last'.c].sz < vec[last'.c].cap) =>
       LET x == last'.c IN
       /\ vec'[x].sz = vec[x].sz + 1
       /\ Elems(bufs', vec'[x]) = InsertAt(Elems(bufs, vec[x]), last'.k + 1, last'.v)]_vars

\* what insert does when size < capacity: v replaces the element at k,
\* which goes to the end
InsertMovesOneToTheEnd ==
  [][(last'.on = "vector" /\ last'.op = "insert" /\ vec[last'.c].sz < vec[last'.c].cap) =>
       LET x == last'.c
           old == Elems(bufs, vec[x])
           k == last'.k
       IN /\ vec'[x].sz = vec[x].sz + 1
          /\ Elems(bufs', vec'[x]) =
               IF k = Len(old) THEN Append(old, last'.v)
               ELSE Append([old EXCEPT ![k + 1] = last'.v], old[k + 1])]_vars

\* C4 as stated: size() is the push_back calls minus the pop_back calls, and
\* the elements are the surviving pushed values in insertion order.
C4_SizeIsPushesMinusPops ==
  [][/\ vec'[1].sz = balance'
     /\ last'.op = "push_back" =>
          Elems(bufs', vec'[1]) = Append(Elems(bufs, vec[1]), last'.v)
     /\ last'.op = "pop_back" =>
          Elems(bufs', vec'[1]) = Front(Elems(bufs, vec[1]))]_vars

\* C4 amended: size() is the push_back calls minus the pop_back calls that
\* were made on a non-empty array, and the elements are the surviving pushed
\* values in insertion order.
C4_SizeIsPushesMinusEffectivePops ==
  [][/\ vec'[1].sz = balance' + idle'
     /\ last'.op = "push_back" =>
          Elems(bufs', vec'[1]) = Append(Elems(bufs, vec[1]), last'.v)
     /\ last'.op = "pop_back" =>
          Elems(bufs', vec'[1]) = Front(Elems(bufs, vec[1]))]_vars

\* the array was reallocated by a push_back, and a pop_back found it empty
C4_Witness ==
  /\ last.op = "push_back" /\ vec[1].sz = MinCap + 1 /\ vec[1].cap = 2 * MinCap
  /\ idle > 0

\* C5: push_back at size = capacity doubles the capacity,
\* push_back_incremental at size = capacity adds 1 to it, either leaves it
\* alone when size < capacity; the old elements stay and the value is at
\* index old size.
C5_GrowthPolicy ==
  [][last'.op \in {"push_back", "push_back_incremental"} =>
       /\ vec'[1].cap =
            IF vec[1].sz < vec[1].cap THEN vec[1].cap
            ELSE IF last'.op = "push_back" THEN 2 * vec[1].cap
            ELSE vec[1].cap + 1
       /\ vec'[1].sz = vec[1].sz + 1
       /\ Elems(bufs', vec'[1]) = Append(Elems(bufs, vec[1]), last'.v)]_vars

\* a push_back has just doubled the capacity of a full array
C5_Witness ==
  /\ last.op = "push_back" /\ vec[1].sz = MinCap + 1 /\ vec[1].cap = 2 * MinCap
  /\ Elems(bufs, vec[1])[MinCap + 1] = last.v

\* C7: at(i) throws out_of_range when i >= size() and returns the element
\* at index i when i < size(); it changes nothing.
C7_AtIsChecked ==
  [][(last'.on = "vector" /\ last'.op = "at") =>
       LET x == last'.c
           i == last'.k
       IN /\ i >= vec[x].sz => last'.ub = "out_of_range"
          /\ i < vec[x].sz => last'.ub = "none" /\ last'.ret = Elems(bufs, vec[x])[i + 1]
          /\ vec' = vec /\ bufs' = bufs]_vars

\* at(i) has just thrown for an index between size and capacity
C7_Witness ==
  /\ last.on = "vector" /\ last.op = "at" /\ last.ub = "out_of_range"
  /\ vec[1].sz > 0 /\ last.k > vec[1].sz /\ last.k < vec[1].cap

\* C8 as stated: no call on an array lowers its capacity.
C8_CapacityNeverDecreases ==
  [][\A x \in VecId : (vec[x].made /\ vec'[x].made) => vec'[x].cap >= vec[x].cap]_vars

\* C8 amended: no call other than copy-assignment lowers the capacity of
\* an array; copy-assignment from another array sets the capacity to that
\* of the source, and self-assignment leaves it alone.
C8_CapacityUnlessAssigned ==
  [][\A x \in VecId : (vec[x].made /\ vec'[x].made) =>
       IF last'.op = "assign" /\ last'.c = x
       THEN vec'[x].cap = vec[last'.k].cap
       ELSE vec'[x].cap >= vec[x].cap]_vars

\* an array has just been assigned from another one of another capacity
C8_Witness ==
  /\ last.on = "vector" /\ last.op = "assign" /\ last.k # last.c
  /\ vec[last.c].cap = MinCap /\ vec[last.c].sz > 0

\* C11: erase(begin() + k) on a non-empty array, 0 <= k < size, leaves
\* size - 1 elements, the old ones without the one at k, leaves the capacity
\* alone, and returns the position k it was given: the slot of the element
\* that followed the erased one, or end() when k was the last index.
C11_EraseShiftsLeft ==
  [][(last'.on = "vector" /\ last'.op = "erase") =>
       LET x == last'.c
           k == last'.k
           old == Elems(bufs, vec[x])
           new == Elems(bufs', vec'[x])
       IN /\ vec'[x].sz = vec[x].sz - 1
          /\ new = RemoveAt(old, k + 1)
          /\ vec'[x].cap = vec[x].cap
          /\ last'.ret = k
          /\ IF k = vec[x].sz - 1 THEN last'.ret = vec'[x].sz
             ELSE new[last'.ret + 1] = old[k + 2]]_vars

\* the middle one of three elements has just been erased, and the two that
\* are left differ
C11_Witness ==
  /\ last.on = "vector" /\ last.op = "erase" /\ last.k = 1
  /\ vec[1].sz = 2
  /\ Elems(bufs, vec[1])[1] # Elems(bufs, vec[1])[2]


C14_ClearEmpties ==
  (last.on = "list" /\ last.op = "clear") =>
    /\ last.end = "return"
    /\ lst[last.c].sz = 0
    /\ lst[last.c].head = NULL /\ lst[last.c].tail = NULL

\* what clear does: on an empty list nothing, and on any other list its
\* first ++it reads the next field of the node pop_front has just deleted
ClearReadsDeletedNode ==
  [][(last'.on = "list" /\ last'.op = "clear") =>
       IF lst[last'.c].sz = 0
       THEN last'.end = "return" /\ last'.ub = "none" /\ lst'[last'.c] = lst[last'.c]
       ELSE last'.ub = "use_after_free"]_vars
\* the first n elements of s, then v up to length n
Resized(s, n, v) == [j \in 1..n |-> IF j <= Len(s) THEN s[j] ELSE v]

\* C15: resize(n, v) on an array or a list of size s leaves size n, the
\* first min(s, n) elements as they were and, when n > s, v at positions
\* s .. n-1.  It holds of every resize from every state, so of the second
\* call of resize(n); resize(s) too: that one leaves size s.
C15_ResizeSetsSize ==
  [][last'.op = "resize" =>
       LET x == last'.c
           n == last'.k
       IN IF last'.on = "list"
          THEN /\ lst'[x].sz = n
               /\ Values(nodes', lst'[x]) = Resized(Values(nodes, lst[x]), n, last'.v)
          ELSE /\ vec'[x].sz = n
               /\ Elems(bufs', vec'[x]) = Resized(Elems(bufs, vec[x]), n, last'.v)]_vars

\* an array of two elements has just been resized past its capacity
C15_Witness ==
  /\ last.on = "vector" /\ last.op = "resize" /\ last.k = MinCap + 1
  /\ vec[1].sz = MinCap + 1 /\ vec[1].cap = 2 * MinCap
  /\ Elems(bufs, vec[1])[2] # last.v
  /\ Elems(bufs, vec[1])[3] = last.v


\* the node a call on list c takes out of the chain, NULL for none:
\* insert takes none, pop_front the head, pop_back and erase(end()) the tail,
\* erase(pos) the node of pos
Removed(op, pos, l) ==
  CASE op = "insert" -> NULL
    [] op = "pop_front" -> l.head
    [] op = "pop_back" -> l.tail
    [] op = "erase" -> IF pos = end THEN l.tail ELSE pos
    [] OTHER -> NULL

\* node X of the list is live, holds the value it held, and is in the chain
Kept(c, X) ==
  /\ nodes'[X].live
  /\ nodes'[X].t = nodes[X].t
  /\ X \in Range(Chain(nodes', lst'[c]))

\* C16: after an insert at any position, and after an erase, pop_front or
\* pop_back that removes another node, the call has returned and a node X
\* of the list is live, holds the value it held and is in the list.
C16_IteratorStability ==
  [][(last'.on = "list" /\ last'.op \in {"insert", "erase", "pop_front", "pop_back"}) =>
       LET c == last'.c IN
       \A X \in Range(Chain(nodes, lst[c])) \ {Removed(last'.op, last'.pos, lst[c])} :
         /\ last'.end = "return" /\ last'.ub = "none"
         /\ Kept(c, X)]_vars

\* the same, for every call but the erase of the last node of a longer list
IteratorStabilityButEraseLast ==
  [][(/\ last'.on = "list" /\ last'.op \in {"insert", "erase", "pop_front", "pop_back"}
      /\ ~(last'.op = "erase" /\ last'.pos # end /\ last'.pos = lst[last'.c].tail
             /\ lst[last'.c].sz > 1)) =>
       LET c == last'.c IN
       \A X \in Range(Chain(nodes, lst[c])) \ {Removed(last'.op, last'.pos, lst[c])} :
         /\ last'.end = "return" /\ last'.ub = "none"
         /\ Kept(c, X)]_vars
\* C17: after a = b on lists, b the same object as a included, the call
\* has returned and a's values and size are those b had before it.
C17_AssignCopies ==
  [][(last'.on = "list" /\ last'.op = "assign") =>
       LET a == last'.c
           b == last'.k
       IN /\ last'.end = "return"
          /\ Values(nodes', lst'[a]) = Values(nodes, lst[b])
          /\ lst'[a].sz = lst[b].sz]_vars

\* what assignment does when a is empty: clear() has nothing to do, and a
\* becomes a copy of b
AssignToEmpty ==
  [][(last'.on = "list" /\ last'.op = "assign" /\ lst[last'.c].sz = 0) =>
       LET a == last'.c
           b == last'.k
       IN /\ last'.end = "return" /\ last'.ub = "none"
          /\ Values(nodes', lst'[a]) = Values(nodes, lst[b])
          /\ lst'[a].sz = lst[b].sz
          /\ WellFormed(nodes', lst'[a])]_vars

\* what self-assignment does to a list that is not empty: it never returns
\* with the contents it had
SelfAssignLosesContents ==
  [][(last'.on = "list" /\ last'.op = "assign" /\ last'.k = last'.c
        /\ lst[last'.c].sz > 0) =>
       \/ last'.end # "return"
       \/ lst'[last'.c].sz = 0]_vars

\* the nodes a step frees
Freed == {X \in Node : nodes[X].live /\ ~nodes'[X].live}

\* the nodes of list c before the step, and after it
Owned(c) == Range(Chain(nodes, lst[c]))

OwnedAfter(c) == IF lst'[c].made THEN Range(Chain(nodes', lst'[c])) ELSE {}

\* the lifecycle of the nodes over one call on list c
Lifecycle(c) ==
  \* a node is freed only by the call that takes it out of the chain
  /\ Freed \subseteq Owned(c) \ OwnedAfter(c)
  \* no node is left to be freed a second time: what a list points at is live
  /\ \A d \in ListId :
       /\ \A X \in OwnedAfter(d) : nodes'[X].live
       /\ lst'[d].made /\ lst'[d].tail # NULL => nodes'[lst'[d].tail].live
  \* no leak: a live node is in the chain of a list
  /\ LiveNodes(nodes') \subseteq UNION {OwnedAfter(d) : d \in ListId}
  \* after clear() and after destruction none of the list's nodes remains
  /\ last'.op \in {"clear", "~list"} =>
       /\ last'.end = "return"
       /\ \A X \in Owned(c) : ~nodes'[X].live

\* C18: over every sequence of list calls and destruction, a node is freed
\* only by the call that removes it from the chain, never twice, every
\* allocated node belongs to a list, and after clear() or destruction no
\* node of the list remains allocated.
C18_NodeLifecycle ==
  [][last'.on = "list" => Lifecycle(last'.c)]_vars

\* the same, for the calls that read no deleted node and go through no null
\* pointer
NodeLifecycleOfDefinedCalls ==
  [][(last'.on = "list" /\ last'.ub = "none") => Lifecycle(last'.c)]_vars
\* the arrays that exist after the step
MadeAfter == {x \in VecId : vec'[x].made}

\* C19: after every call each array owns one allocated buffer of exactly
\* capacity() slots, no two arrays own the same one and no other buffer is
\* allocated; a call that installs a new buffer (reserve, growth,
\* copy-assignment) has freed the old one, which was allocated until then,
\* and destruction frees the buffer of the array.
C19_BufferOwnership ==
  [][last'.on = "vector" =>
       /\ \A x \in MadeAfter :
            /\ vec'[x].t \in Buf
            /\ bufs'[vec'[x].t].live
            /\ Len(bufs'[vec'[x].t].a) = vec'[x].cap
       /\ \A x \in MadeAfter, y \in MadeAfter : x # y => vec'[x].t # vec'[y].t
       /\ LiveBufs(bufs') = {vec'[x].t : x \in MadeAfter}
       /\ \A x \in VecId :
            (vec[x].made /\ (~vec'[x].made \/ vec'[x].t # vec[x].t)) =>
              /\ bufs[vec[x].t].live
              /\ ~bufs'[vec[x].t].live
       /\ Cardinality(LiveBufs(bufs')) = Cardinality(MadeAfter)]_vars

\* a reserve has just moved the elements of one of two arrays to a larger
\* buffer
C19_Witness ==
  /\ last.on = "vector" /\ last.op = "reserve"
  /\ vec[1].made /\ vec[2].made
  /\ vec[last.c].cap = MinCap + 1 /\ vec[last.c].sz > 0
  /\ vec[3 - last.c].cap = MinCap

\* slot i is a slot of the buffer of array v, and holds x
SlotHolds(b, v, i, x) ==
  /\ i >= 0 /\ i < v.cap
  /\ i + 1 \in DOMAIN b[v.t].a
  /\ b[v.t].a[i + 1] = x

\* the slots a call on array x has written are slots of its buffer: each
\* holds what the call wrote to it
WritesLanded(op, x, k, val) ==
  LET old == vec[x]
      new == vec'[x]
      was(i) == bufs[old.t].a[i + 1]
  IN CASE op \in {"push_back", "push_back_incremental"} ->
            SlotHolds(bufs', new, old.sz, val)
       [] op = "pop_back" ->
            old.sz > 0 => SlotHolds(bufs', new, old.sz - 1, DefaultT)
       [] op = "insert" ->
            old.sz < old.cap =>
              /\ SlotHolds(bufs', new, k, val)
              /\ k < old.sz => SlotHolds(bufs', new, old.sz, was(k))
       [] op = "erase" ->
            \A j \in k..(old.cap - 2) : SlotHolds(bufs', new, j, was(j + 1))
       [] op = "clear" ->
            \A j \in 0..(old.sz - 1) : SlotHolds(bufs', new, j, DefaultT)
       [] op = "resize" ->
            /\ \A j \in old.sz..(k - 1) : SlotHolds(bufs', new, j, val)
            /\ \A j \in k..(old.sz - 1) : SlotHolds(bufs', new, j, DefaultT)
       [] op = "reserve" ->
            \A j \in 0..(old.sz - 1) : SlotHolds(bufs', new, j, was(j))
       [] op = "ctor" ->
            \A j \in 0..(k - 1) : SlotHolds(bufs', new, j, val)
       [] op = "copy" ->
            \A j \in 0..(vec[k].cap - 1) : SlotHolds(bufs', new, j, bufs[vec[k].t].a[j + 1])
       [] op = "assign" ->
            k # x => \A j \in 0..(vec[k].sz - 1) :
                       SlotHolds(bufs', new, j, bufs[vec[k].t].a[j + 1])
       [] OTHER -> TRUE

\* C20: after every call 0 <= size <= capacity holds of every array, whose
\* buffer has the slots 0 .. capacity-1, and every slot the call wrote is
\* one of them.  (A read of a slot outside the buffer has no value in this
\* model: the step could not be taken.)
C20_SizeWithinCapacity ==
  [][last'.on = "vector" =>
       /\ \A x \in MadeAfter :
            /\ 0 <= vec'[x].sz /\ vec'[x].sz <= vec'[x].cap
            /\ Len(bufs'[vec'[x].t].a) = vec'[x].cap
       /\ WritesLanded(last'.op, last'.c, last'.k, last'.v)]_vars

\* a full array that grew by one slot has just been copied
C20_Witness ==
  /\ last.on = "vector" /\ last.op = "copy"
  /\ vec[2].sz = vec[2].cap /\ vec[2].cap = MinCap + 1
  /\ vec[1].sz = vec[1].cap

\* the list calls of C21, each made with a valid argument
SafeCalls ==
  {"clear", "erase", "insert", "pop_front", "pop_back", "copy", "assign", "++"}

\* C21: no list call made with a valid argument (clear, erase or insert at
\* begin(), at end() or at an element, pop_front, pop_back, copy, assignment,
\* ++ from any position but end()) goes through a null link or accesses a
\* node that has been freed.
C21_ListMemorySafety ==
  (last.on = "list" /\ last.op \in SafeCalls) => last.ub = "none"

\* the calls that do: clear of, and assignment to, a list that is not
\* empty, and erase of the last node of a list of two or more; every other
\* one of these calls is safe
UnsafeListCalls ==
  [][(last'.on = "list" /\ last'.op \in SafeCalls) =>
       LET c == last'.c
           stale == last'.op \in {"clear", "assign"} /\ lst[c].sz > 0
           null == /\ last'.op = "erase" /\ last'.pos # end
                   /\ last'.pos = lst[c].tail /\ lst[c].sz > 1
       IN /\ stale => last'.ub = "use_after_free"
          /\ null => last'.ub = "null_deref"
          /\ ~(stale \/ null) => last'.ub = "none"]_vars
====
